---- MODULE Spec2Model ----
(***************************************************************************)
(* A state-machine model of src/src/line_vector.cpp (LINE graph embedding: *)
(* vertex index, edge loading, alias table, negative table, sigmoid table, *)
(* training threads and the orchestrating TrainLINEMain).                  *)
(*                                                                         *)
(* Arrays keep the 0-based indices of the source: they are functions over  *)
(* 0..n-1.  Real numbers are held exactly as integer numerators over a     *)
(* stated denominator.                                                     *)
(***************************************************************************)
EXTENDS Integers, Sequences, FiniteSets, TLC

(***************************************************************************)
(* Bounds of the model                                                     *)
(***************************************************************************)
\* most edges of a weight vector handed to InitAliasTable
MaxEdges == 4
\* edge weights are drawn from 1..MaxWeight
MaxWeight == 3
\* most vertices of a degree vector handed to InitNegTable
MaxNegVertices == 3
\* the degrees of such a vector are drawn from 1..MaxDegree
MaxDegree == 4
\* FastSigmoid is called with every x from XMargin thousandths below -bound to
\* XMargin thousandths above bound
XMargin == 24
\* TrainLINEMain is called with dim in 1..MaxDim
MaxDim == 2
\* ... with num_negative in 0..MaxNegative
MaxNegative == 1
\* ... with num_threads in 1..MaxThreads
MaxThreads == 2
\* ... with total_samples (in units of SamplesUnit samples) in 0..MaxSamples
MaxSamples == 0
\* the training runs are called with total_samples in 0..MaxTrainSamples units
MaxTrainSamples == 1
\* most calls of TrainLINEMain one process makes
MaxRuns == 2
\* most rows of an edge stream handed to VectorReadData
MaxRows == 2
\* the weights of the rows of an edge stream are drawn from 1..MaxRowWeight
MaxRowWeight == 2

(***************************************************************************)
(* Program constants                                                       *)
(***************************************************************************)
\* line 25
MAX_STRING == 100
\* line 29, scaled down from 30000000 so that probe sequences collide and the
\* table can fill up
hash_table_size == 3
\* lines 44 and 109: the vertex array starts with, and grows by, 1000 cells
VertexChunk == 1000
\* line 30, scaled down from 1e8
neg_table_size == 4
\* line 394: total_samples *= 1000000, scaled down (to a unit that, like
\* 1000000, the thread counts of the model do not all divide)
SamplesUnit == 3
\* line 264: count - last_count > 10000, scaled down
FlushEvery == 1
\* line 271: the floor of rho is init_rho * 0.0001 = init_rho / RhoFloorInv
RhoFloorInv == 10000
\* line 26
SIGMOID_BOUND == 6
\* line 31
sigmoid_table_size == 1000

\* the value of a cell that malloc returned and nothing has written yet
Uninit == -1

\* vertex names are strings of character codes: "A", "B", "C", "D"
Names == {<<65>>, <<66>>, <<67>>, <<68>>}

VARIABLES
    pc,             \* where TrainLINEMain is (the statement it executes next)
    built,          \* the tables this run has completely built
    input_u,        \* line 307: [0..n-1 -> name]
    input_v,        \* line 307: [0..n-1 -> name]
    input_w,        \* line 307: [0..n-1 -> weight]
    rk,             \* VectorReadData's loop index k (line 327)
    vertex,         \* line 41: [0..num_vertices-1 -> [name, degree]], the written cells
    num_vertices,   \* line 44
    max_num_vertices, \* line 44
    vertex_hash_table, \* line 43: [0..hash_table_size-1 -> vertex id or -1]
    edge_source_id, \* line 49
    edge_target_id, \* line 49
    num_edges,      \* line 45
    edge_weight,    \* line 50: [0..num_edges-1 -> weight]
    alias,          \* line 54: [0..num_edges-1 -> edge index or Uninit]
    prob,           \* line 55: numerators over the denominator SumW(edge_weight)
    sampled,        \* the edge the last call of SampleAnEdge returned, Uninit before one
    neg_table,      \* line 43: [0..neg_table_size-1 -> vertex id]
    sigmoid_table,  \* line 47: [cells, filled]: cells allocated, cells 0..filled-1 written
    fs,             \* the last call of FastSigmoid: its argument x, its local k, its result
    order,          \* line 42
    dim,            \* line 42
    num_negative,   \* line 42
    num_threads,    \* line 42
    total_samples,  \* line 45
    malloc_exit,    \* line 51
    report,         \* what the run has printed with Rprintf about an error ("" when nothing)
    pt_a,           \* line 397: the index a of the create and join loops
    rho,            \* line 46: rho / init_rho as a numerator over RhoDen
    current_sample_count, \* line 45
    emb_vertex,     \* line 47: [0..num_vertices*dim-1 -> cell]
    emb_context,    \* line 47: [0..num_vertices*dim-1 -> cell]
    output_vertices, \* line 382: the caller's std::vector of names, a sequence
    output_vectors, \* line 382: the caller's std::vector of vectors, a sequence
    caller_vertices, \* output_vertices as the caller passed it
    caller_vectors, \* output_vectors as the caller passed it
    thr,            \* the threads created: [thread id -> the locals of TrainLINEThread]
    run,            \* the number of calls of TrainLINEMain made so far
    prev,           \* what the call before this one was given and what it appended
    alloc_fail,     \* the allocation that fails in this call ("none": every one succeeds)
    gsl_r,          \* line 58: the generator: edges drawn since gsl_rng_set, and what
                    \* is known of the sequence it gives after that seeding
    rand_seq        \* what is known of the sequence Rand gives from seed 0 (line 256)

loadVars == <<input_u, input_v, input_w, rk, vertex, num_vertices, max_num_vertices,
              vertex_hash_table, edge_source_id, edge_target_id, num_edges, edge_weight>>
aliasVars == <<alias, prob, sampled>>
negVars == <<neg_table>>
sigVars == <<sigmoid_table, fs>>
mainVars == <<order, dim, num_negative, num_threads, total_samples, malloc_exit, report, pt_a>>
rateVars == <<rho, current_sample_count>>
embVars == <<emb_vertex, emb_context>>
outVars == <<output_vertices, output_vectors, caller_vertices, caller_vectors>>
envVars == <<run, prev, alloc_fail>>
rngVars == <<gsl_r, rand_seq>>
trainVars == <<mainVars, rateVars, embVars, outVars, thr, envVars, rngVars>>
vars == <<pc, built, loadVars, aliasVars, negVars, sigVars, trainVars>>

\* real numbers x of the sigmoid's domain are held in thousandths
XDen == 1000

\* fs before any call of FastSigmoid
NoCall == [x |-> 0, k |-> Uninit, ret |-> [kind |-> "none", x |-> 0]]

\* the empty array
Empty == [k \in {} |-> 0]

\* prev during the first call
NoRun == [made |-> FALSE]

\* the allocations of the setup that can fail, by the variable they are for
\* (scratch: norm_prob, large_block, small_block of InitAliasTable)
AllocSites == {"vertex", "pt", "hash", "edges", "alias", "scratch", "emb_vertex",
               "emb_context", "neg", "sigmoid"}

\* what Rprintf prints when an allocation is found to have failed
AllocError == "Error: memory allocation failed!"
\* an array of n cells nothing has written
Fresh(n) == [k \in 0..(n - 1) |-> Uninit]
\* the number of cells of an array (std::vector::size)
Size(f) == Cardinality(DOMAIN f)

(***************************************************************************)
(* VertexIndex: Hash, InsertHashTable, SearchHashTable, AddVertex          *)
(***************************************************************************)
RECURSIVE HashFrom(_, _, _)
\* lines 64-69: hash = hash * seed + *key++ over the characters of key, seed 131
\* (the names of the model are too short for the 32-bit product to wrap)
HashFrom(key, i, hash) ==
    IF i > Len(key) THEN hash ELSE HashFrom(key, i + 1, hash * 131 + key[i])

\* lines 62-71
Hash(key) == HashFrom(key, 1, 0) % hash_table_size

\* the answer of a probe loop that never ends
Hang == -2

\* lines 101-104: the copy of the name AddVertex keeps, cut to MAX_STRING - 1
\* characters
StoredName(name) ==
    LET length == IF Len(name) + 1 > MAX_STRING THEN MAX_STRING ELSE Len(name) + 1
    IN SubSeq(name, 1, length - 1)

RECURSIVE SearchFrom(_, _, _, _, _)
\* lines 89-94: the probe loop of SearchHashTable from addr; after
\* hash_table_size probes that met neither an empty cell nor the key, the loop
\* revisits the same cells for ever
SearchFrom(table, vtx, key, addr, probes) ==
    IF probes = hash_table_size THEN Hang
    ELSE IF table[addr] = -1 THEN -1
    ELSE IF key = vtx[table[addr]].name THEN table[addr]
    ELSE SearchFrom(table, vtx, key, (addr + 1) % hash_table_size, probes + 1)

\* lines 86-96
SearchHashTable(table, vtx, key) == SearchFrom(table, vtx, key, Hash(key), 0)

RECURSIVE FreeCellFrom(_, _, _)
\* line 82: the first cell from addr on that holds -1 (Hang when there is none)
FreeCellFrom(table, addr, probes) ==
    IF probes = hash_table_size THEN Hang
    ELSE IF table[addr] # -1 THEN FreeCellFrom(table, (addr + 1) % hash_table_size, probes + 1)
    ELSE addr

\* a plausible slip in InsertHashTable: no probing, the home cell is overwritten
InsertHashTable_NoProbe(table, key, value) == [table EXCEPT ![Hash(key)] = value]

\* lines 79-84
InsertHashTable(table, key, value) ==
    LET addr == FreeCellFrom(table, Hash(key), 0)
    IN IF addr = Hang THEN table ELSE [table EXCEPT ![addr] = value]

\* the vertex index as one value: the fields AddVertex and the loader work on
Graph == [vertex |-> vertex, num_vertices |-> num_vertices,
          max_num_vertices |-> max_num_vertices, table |-> vertex_hash_table]

\* lines 99-114: the index after AddVertex(name); the new id is g.num_vertices
AddVertex(g, name) ==
    LET n1 == g.num_vertices + 1
    IN [vertex |-> [i \in 0..g.num_vertices |->
                       IF i = g.num_vertices
                       THEN [name |-> StoredName(name), degree |-> 0]
                       ELSE g.vertex[i]],
        num_vertices |-> n1,
        max_num_vertices |-> IF n1 + 2 >= g.max_num_vertices
                             THEN g.max_num_vertices + VertexChunk
                             ELSE g.max_num_vertices,
        table |-> InsertHashTable(g.table, name, n1 - 1)]

\* a plausible slip in lines 341/346: the weight is stored, not added
AddDegree_Store(g, vid, weight) ==
    [g EXCEPT !.vertex[vid].degree = weight]

\* lines 341 and 346: vertex[vid].degree += weight
AddDegree(g, vid, weight) ==
    [g EXCEPT !.vertex[vid].degree = @ + weight]

\* lines 339-341 (344-346): look the name up, add it when it is new, add the
\* weight to its degree.  vid is Hang when the lookup never returns.
Resolve(g, name, weight) ==
    LET found == SearchHashTable(g.table, g.vertex, name)
    IN IF found = Hang THEN [g |-> g, vid |-> Hang]
       ELSE LET g1 == IF found = -1 THEN AddVertex(g, name) ELSE g
                vid == IF found = -1 THEN g.num_vertices ELSE found
            IN [g |-> AddDegree(g1, vid, weight), vid |-> vid]

(***************************************************************************)
(* GraphLoader: InitHashTable and VectorReadData                           *)
(***************************************************************************)
\* lines 73-77, called at line 415
InitHashTable ==
    /\ pc = "InitHashTable"
    /\ IF alloc_fail = "hash"
       THEN \* line 75 gives NULL, which nothing tests: line 76 writes through it
            /\ pc' = "fault"
            /\ UNCHANGED <<vertex_hash_table, built>>
       ELSE /\ vertex_hash_table' = [k \in 0..(hash_table_size - 1) |-> -1]
            /\ built' = built \cup {"hash"}
            /\ pc' = "VectorReadData"
    /\ UNCHANGED <<input_u, input_v, input_w, rk, vertex, num_vertices, max_num_vertices,
                   edge_source_id, edge_target_id, num_edges, edge_weight, aliasVars,
                   negVars, sigVars, trainVars>>

\* the variables of the training state other than malloc_exit and report
trainVarsButExit ==
    <<order, dim, num_negative, num_threads, total_samples, pt_a, rateVars, embVars,
      outVars, thr, envVars, rngVars>>

\* lines 313-326: the head of VectorReadData; when an edge array could not be
\* allocated, lines 319-324 and the return of line 417
VectorReadDataBegin ==
    /\ pc = "VectorReadData"
    /\ num_edges' = Size(input_u)
    /\ IF alloc_fail = "edges"
       THEN /\ edge_source_id' = Empty
            /\ edge_target_id' = Empty
            /\ edge_weight' = Empty
            /\ report' = AllocError
            /\ malloc_exit' = 1
            /\ pc' = "returned"
            /\ UNCHANGED <<num_vertices, rk>>
       ELSE /\ edge_source_id' = Fresh(Size(input_u))
            /\ edge_target_id' = Fresh(Size(input_u))
            /\ edge_weight' = Fresh(Size(input_u))
            /\ num_vertices' = 0
            /\ rk' = 0
            /\ pc' = "ReadRow"
            /\ UNCHANGED <<report, malloc_exit>>
    /\ UNCHANGED <<built, input_u, input_v, input_w, vertex, max_num_vertices,
                   vertex_hash_table, aliasVars, negVars, sigVars, trainVarsButExit>>

\* lines 327-350: one iteration of the loop over the rows; lines 416-417 when
\* the loop is over
ReadRow ==
    /\ pc = "ReadRow"
    /\ IF rk = num_edges
       THEN /\ pc' = IF malloc_exit # 0 THEN "returned" ELSE "InitAliasTable"
            /\ built' = built \cup {"graph"}
            /\ UNCHANGED loadVars
       ELSE IF alloc_fail = "vertex"
       THEN \* line 396 gave NULL, which nothing tests: the first name is new
            \* and line 103 of AddVertex writes vertex[0].name
            /\ pc' = "fault"
            /\ UNCHANGED <<built, loadVars>>
       ELSE LET name_v1 == input_u[rk]
                name_v2 == input_v[rk]
                weight == input_w[rk]
                r1 == Resolve(Graph, name_v1, weight)
                r2 == Resolve(r1.g, name_v2, weight)
                hung == r1.vid = Hang \/ r2.vid = Hang
                g == IF r1.vid = Hang THEN Graph ELSE r2.g
            IN /\ vertex' = g.vertex
               /\ num_vertices' = g.num_vertices
               /\ max_num_vertices' = g.max_num_vertices
               /\ vertex_hash_table' = g.table
               /\ edge_source_id' = IF r1.vid = Hang THEN edge_source_id
                                    ELSE [edge_source_id EXCEPT ![rk] = r1.vid]
               /\ edge_target_id' = IF hung THEN edge_target_id
                                    ELSE [edge_target_id EXCEPT ![rk] = r2.vid]
               /\ edge_weight' = IF hung THEN edge_weight
                                 ELSE [edge_weight EXCEPT ![rk] = weight]
               /\ rk' = IF hung THEN rk ELSE rk + 1
               /\ pc' = IF hung THEN "hung" ELSE "ReadRow"
               /\ UNCHANGED <<built, num_edges, input_u, input_v, input_w>>
    /\ UNCHANGED <<aliasVars, negVars, sigVars, trainVars>>

\* the loader's variables before anything is loaded (the state at program start)
LoadIdle ==
    /\ input_u = Empty
    /\ input_v = Empty
    /\ input_w = Empty
    /\ rk = 0
    /\ vertex = Empty
    /\ num_vertices = 0
    /\ max_num_vertices = VertexChunk
    /\ vertex_hash_table = Empty
    /\ edge_source_id = Empty
    /\ edge_target_id = Empty

AliasIdle ==
    /\ alias = Empty
    /\ prob = Empty
    /\ sampled = Uninit

NegIdle == neg_table = Empty

SigIdle ==
    /\ sigmoid_table = [cells |-> 0, filled |-> 0]
    /\ fs = NoCall

\* the training state at program start: the initialisers of lines 42-51
TrainIdle ==
    /\ order = 2
    /\ dim = 100
    /\ num_negative = 5
    /\ num_threads = 1
    /\ total_samples = 1
    /\ malloc_exit = 0
    /\ report = ""
    /\ pt_a = 0
    /\ rho = 0
    /\ current_sample_count = 0
    /\ emb_vertex = Empty
    /\ emb_context = Empty
    /\ output_vertices = <<>>
    /\ output_vectors = <<>>
    /\ caller_vertices = <<>>
    /\ caller_vectors = <<>>
    /\ thr = Empty
    /\ run = 0
    /\ prev = NoRun
    /\ alloc_fail = "none"
    /\ gsl_r = [pos |-> 0, key |-> Empty, known |-> <<>>]
    /\ rand_seq = <<>>

\* an edge stream is handed over and the vertex array is allocated (line 396)
LoadInit ==
    /\ pc = "InitHashTable"
    /\ built = {}
    /\ \E n \in 1..MaxRows :
         /\ input_u \in [0..(n - 1) -> Names]
         /\ input_v \in [0..(n - 1) -> Names]
         /\ input_w \in [0..(n - 1) -> 1..MaxRowWeight]
    /\ rk = 0
    /\ vertex = Empty
    /\ num_vertices = 0
    /\ max_num_vertices = VertexChunk
    /\ vertex_hash_table = Empty
    /\ edge_source_id = Empty
    /\ edge_target_id = Empty
    /\ num_edges = 0
    /\ edge_weight = Empty
    /\ AliasIdle
    /\ NegIdle
    /\ SigIdle
    /\ TrainIdle

LoadNext == InitHashTable \/ VectorReadDataBegin \/ ReadRow

SpecLoad == LoadInit /\ [][LoadNext]_vars

(***************************************************************************)
(* C2, C4                                                                  *)
(***************************************************************************)
RECURSIVE NameStream(_)
\* the names of rows 0..k-1 in reading order: source before target
NameStream(k) ==
    IF k = 0 THEN <<>> ELSE NameStream(k - 1) \o <<input_u[k - 1], input_v[k - 1]>>

RECURSIVE FirstOccurrences(_, _)
\* the names of a stream in order of first occurrence (seen: those already kept)
FirstOccurrences(stream, seen) ==
    IF stream = <<>> THEN seen
    ELSE IF \E i \in 1..Len(seen) : seen[i] = Head(stream)
         THEN FirstOccurrences(Tail(stream), seen)
         ELSE FirstOccurrences(Tail(stream), Append(seen, Head(stream)))

\* the rows the loader has completely read
RowsRead == IF pc \in {"InitHashTable", "VectorReadData"} THEN 0 ELSE rk

\* C2: ids are 0, 1, 2, ... in order of first occurrence of each name (source
\* before target), and every occurrence of a name in a row that was read
\* resolved to the id the name was first given, whatever cells collide.
C2_FirstOccurrenceIds ==
    LET names == FirstOccurrences(NameStream(RowsRead), <<>>)
    IN /\ pc \notin {"InitHashTable", "VectorReadData", "hung"} =>
             /\ num_vertices = Len(names)
             /\ \A i \in 0..(num_vertices - 1) : vertex[i].name = names[i + 1]
       /\ \A j \in 0..(RowsRead - 1) :
             /\ names[edge_source_id[j] + 1] = input_u[j]
             /\ names[edge_target_id[j] + 1] = input_v[j]

\* a stream was loaded in which two names with the same home cell both got an
\* id and the displaced one occurred again in a later row
C2_Witness ==
    /\ pc = "InitAliasTable"
    /\ \E i, j \in 0..(num_vertices - 1) :
         /\ i < j
         /\ Hash(vertex[i].name) = Hash(vertex[j].name)
         /\ \E r, q \in 0..(num_edges - 1) :
              /\ r < q
              /\ j \in {edge_source_id[r], edge_target_id[r]}
              /\ j \in {edge_source_id[q], edge_target_id[q]}

\* the sum of the weights of the rows 0..k-1 in which name is the source, plus
\* the sum of the weights of those in which it is the target
RECURSIVE WeightTouching(_, _)
WeightTouching(name, k) ==
    IF k = 0 THEN 0
    ELSE WeightTouching(name, k - 1)
         + (IF input_u[k - 1] = name THEN input_w[k - 1] ELSE 0)
         + (IF input_v[k - 1] = name THEN input_w[k - 1] ELSE 0)

\* C4: after loading, the degree of every vertex is the sum of the weights of
\* the rows in which it is the source plus that of the rows in which it is the
\* target; a self-loop row counts twice and duplicate rows each count.
C4_DegreeIsWeightSum ==
    pc = "InitAliasTable" =>
        \A i \in 0..(num_vertices - 1) :
            vertex[i].degree = WeightTouching(vertex[i].name, num_edges)

\* a stream with a self-loop row and a duplicated row was loaded
C4_Witness ==
    /\ pc = "InitAliasTable"
    /\ num_edges = 2
    /\ input_u[0] = input_v[0]
    /\ input_u[1] = input_u[0]
    /\ input_v[1] = input_u[0]
    /\ input_w[0] = 2
    /\ input_w[1] = 2
    /\ vertex[0].degree = 8

(***************************************************************************)
(* AliasSampler: InitAliasTable and SampleAnEdge                           *)
(***************************************************************************)
RECURSIVE SumTo(_, _)
\* f[0] + ... + f[n-1]
SumTo(f, n) == IF n = 0 THEN 0 ELSE SumTo(f, n - 1) + f[n - 1]

\* line 142: sum of the edge weights, the denominator of norm_prob and prob
SumW(w, n) == SumTo(w, n)

\* line 143: norm_prob[k] = edge_weight[k] * num_edges / sum, as a numerator over sum
NormProb(w, n) == [k \in 0..(n - 1) |-> w[k] * n]

RECURSIVE Classify(_, _, _, _, _)
\* lines 145-151: k runs from num_edges-1 down to 0; an index goes on the small
\* stack when norm_prob[k] < 1 and on the large stack otherwise
Classify(np, sum, k, small, large) ==
    IF k < 0 THEN [small |-> small, large |-> large]
    ELSE IF np[k] < sum
         THEN Classify(np, sum, k - 1, Append(small, k), large)
         ELSE Classify(np, sum, k - 1, small, Append(large, k))

\* a plausible slip in line 159: the "- 1" is forgotten
LargeRemainder_NoMinusOne(npLarge, npSmall, sum) == npLarge + npSmall

\* line 159: norm_prob[large] + norm_prob[small] - 1, as a numerator over sum
LargeRemainder(npLarge, npSmall, sum) == npLarge + npSmall - sum

Pop(s) == SubSeq(s, 1, Len(s) - 1)
Top(s) == s[Len(s)]

RECURSIVE PairBlocks(_, _)
\* lines 153-164: while both stacks are non-empty, pair the top small block
\* with the top large block
PairBlocks(st, sum) ==
    IF Len(st.small) = 0 \/ Len(st.large) = 0 THEN st
    ELSE LET cur_small_block == Top(st.small)
             cur_large_block == Top(st.large)
             rest == LargeRemainder(st.np[cur_large_block], st.np[cur_small_block], sum)
             np2 == [st.np EXCEPT ![cur_large_block] = rest]
             small1 == Pop(st.small)
             large1 == Pop(st.large)
         IN PairBlocks(
              [np    |-> np2,
               prob  |-> [st.prob EXCEPT ![cur_small_block] = st.np[cur_small_block]],
               alias |-> [st.alias EXCEPT ![cur_small_block] = cur_large_block],
               small |-> IF rest < sum THEN Append(small1, cur_large_block) ELSE small1,
               large |-> IF rest < sum THEN large1 ELSE Append(large1, cur_large_block)],
              sum)

\* a plausible slip in lines 166-167: the blocks left over get no prob
FillOnes_Skipped(st, sum) == st.prob

\* lines 166-167: every block left on either stack gets prob = 1
FillOnes(st, sum) ==
    [k \in DOMAIN st.prob |->
        IF (\E i \in 1..Len(st.large) : st.large[i] = k)
           \/ (\E i \in 1..Len(st.small) : st.small[i] = k)
        THEN sum ELSE st.prob[k]]

\* lines 117-172: the tables InitAliasTable leaves for weights w[0..n)
AliasTables(w, n) ==
    LET sum == SumW(w, n)
        np == NormProb(w, n)
        cl == Classify(np, sum, n - 1, <<>>, <<>>)
        st == PairBlocks([np |-> np,
                          prob |-> [k \in 0..(n - 1) |-> Uninit],
                          alias |-> [k \in 0..(n - 1) |-> Uninit],
                          small |-> cl.small, large |-> cl.large], sum)
    IN [prob |-> FillOnes(st, sum), alias |-> st.alias]

\* the draws of gsl_rng_uniform lie on a grid: rand_value1 = a / Den1 with
\* a in 0..Den1-1, rand_value2 = b / Den2 with b in 0..Den2-1
Den1 == 2 * num_edges
Den2 == SumW(edge_weight, num_edges)

\* lines 174-178 with rand_value1 = a / Den1 and rand_value2 = b / Den2:
\* k = (long long) num_edges * rand_value1; rand_value2 < prob[k] ? k : alias[k]
SampleAnEdge(a, b) ==
    LET k == (num_edges * a) \div Den1
    IN IF b < prob[k] THEN k ELSE alias[k]

\* lines 418-419: InitAliasTable as TrainLINEMain calls it
InitAliasTable ==
    /\ pc = "InitAliasTable"
    /\ IF alloc_fail \in {"alias", "scratch"}
       THEN \* lines 121-126 and 131-136: the failure is noted and the function
            \* returns with the tables unwritten
            /\ prob' = IF alloc_fail = "alias" THEN Empty ELSE Fresh(num_edges)
            /\ alias' = IF alloc_fail = "alias" THEN Empty ELSE Fresh(num_edges)
            /\ report' = AllocError
            /\ malloc_exit' = 1
            /\ pc' = "returned"
            /\ built' = built
       ELSE /\ LET t == AliasTables(edge_weight, num_edges)
               IN /\ prob' = t.prob
                  /\ alias' = t.alias
            /\ pc' = IF malloc_exit # 0 THEN "returned" ELSE "InitVector"
            /\ built' = built \cup {"alias"}
            /\ UNCHANGED <<report, malloc_exit>>
    /\ UNCHANGED <<loadVars, sampled, negVars, sigVars, trainVarsButExit>>

\* line 274: one draw of an edge.  Reading a cell of alias that was never
\* written yields whatever the allocation held.
DrawEdge ==
    /\ "alias" \in built
    /\ \E a \in 0..(Den1 - 1), b \in 0..(Den2 - 1) :
         LET e == SampleAnEdge(a, b)
         IN IF e = Uninit
            THEN sampled' \in (-1)..num_edges
            ELSE sampled' = e
    /\ UNCHANGED <<pc, built, loadVars, alias, prob, negVars, sigVars, trainVars>>

\* any non-empty list of positive edge weights
AliasInit ==
    /\ pc = "InitAliasTable"
    /\ built = {"hash", "graph"}
    /\ num_edges \in 1..MaxEdges
    /\ edge_weight \in [0..(num_edges - 1) -> 1..MaxWeight]
    /\ LoadIdle
    /\ AliasIdle
    /\ NegIdle
    /\ SigIdle
    /\ TrainIdle

AliasNext == InitAliasTable \/ DrawEdge

SpecAlias == AliasInit /\ [][AliasNext]_vars

(***************************************************************************)
(* C1                                                                      *)
(***************************************************************************)
\* the draws (a, b) of the uniform grid for which SampleAnEdge returns edge i
DrawsOf(i) ==
    {d \in (0..(Den1 - 1)) \X (0..(Den2 - 1)) :
        SampleAnEdge(d[1], d[2]) = i}

RECURSIVE AliasMass(_, _)
\* sum over slots k < n with alias[k] = i and prob[k] < 1 of (1 - prob[k])
AliasMass(i, n) ==
    IF n = 0 THEN 0
    ELSE AliasMass(i, n - 1)
         + (IF alias[n - 1] = i /\ prob[n - 1] < SumW(edge_weight, num_edges)
            THEN SumW(edge_weight, num_edges) - prob[n - 1] ELSE 0)

\* C1: after InitAliasTable on positive weights, every edge i is selected with
\* probability exactly w[i] / sum(w): (prob[i] + the mass aliased to i) / n equals
\* w[i] / sum, and i is returned for exactly the share w[i] / sum of the equally
\* likely draws of the grid.
C1_AliasExact ==
    "alias" \in built =>
        \A i \in 0..(num_edges - 1) :
            /\ prob[i] + AliasMass(i, num_edges) = num_edges * edge_weight[i]
            /\ Cardinality(DrawsOf(i)) * SumW(edge_weight, num_edges)
                 = Den1 * Den2 * edge_weight[i]

\* a table of unequal weights was built and a draw was answered from alias[k]
C1_Witness ==
    /\ "alias" \in built
    /\ num_edges >= 3
    /\ \E i, j \in 0..(num_edges - 1) : edge_weight[i] # edge_weight[j]
    /\ \E k \in 0..(num_edges - 1) :
         /\ prob[k] < SumW(edge_weight, num_edges)
         /\ alias[k] # k
         /\ sampled = alias[k]

(***************************************************************************)
(* NegativeSampler: InitNegTable                                           *)
(***************************************************************************)
\* pow and the sums of its values are held in tenths: the denominator of a
\* sampling weight
PowDen == 10

\* the largest r with r^4 <= n
Root4(n) == CHOOSE r \in 0..200 : r * r * r * r <= n /\ (r + 1) * (r + 1) * (r + 1) * (r + 1) > n

\* lines 202 and 207: pow(degree, NEG_SAMPLING_POWER) with NEG_SAMPLING_POWER =
\* 0.75 (line 27), rounded down to a multiple of 1 / PowDen (exact for a degree
\* that is a fourth power): the fourth root of degree^3 * PowDen^4
Pow075(degree) ==
    Root4(degree * degree * degree * PowDen * PowDen * PowDen * PowDen)

\* line 207 reads vertex[vid].degree; a cell past num_vertices is as calloc
\* (line 396) left it
DegreeAt(vtx, nv, vid) == IF vid < nv THEN vtx[vid].degree ELSE 0

RECURSIVE PowSum(_, _)
\* line 202: sum of pow(vertex[k].degree, 0.75) over k < n
PowSum(vtx, n) == IF n = 0 THEN 0 ELSE PowSum(vtx, n - 1) + Pow075(vtx[n - 1].degree)

RECURSIVE NegTableFrom(_, _, _, _, _, _, _)
\* lines 203-212: the loop over the slots from slot k on; por is cur_sum / sum,
\* so (k + 1) / neg_table_size > por is (k + 1) * sum > cur_sum * neg_table_size
NegTableFrom(vtx, nv, sum, k, vid, cur_sum, table) ==
    IF k = neg_table_size THEN table
    ELSE IF (k + 1) * sum > cur_sum * neg_table_size
         THEN NegTableFrom(vtx, nv, sum, k + 1, vid + 1,
                           cur_sum + Pow075(DegreeAt(vtx, nv, vid)),
                           [table EXCEPT ![k] = vid])
         ELSE NegTableFrom(vtx, nv, sum, k + 1, vid, cur_sum,
                           [table EXCEPT ![k] = vid - 1])

\* lines 197-213: the table InitNegTable leaves for the vertices vtx[0..nv)
NegTable(vtx, nv) ==
    NegTableFrom(vtx, nv, PowSum(vtx, nv), 0, 0, 0, Fresh(neg_table_size))

\* line 422
InitNegTable ==
    /\ pc = "InitNegTable"
    /\ IF alloc_fail = "neg"
       THEN \* line 201 gives NULL, which nothing tests: line 211 writes through it
            /\ pc' = "fault"
            /\ UNCHANGED <<neg_table, built>>
       ELSE /\ neg_table' = NegTable(vertex, num_vertices)
            /\ built' = built \cup {"neg"}
            /\ pc' = "InitSigmoidTable"
    /\ UNCHANGED <<loadVars, aliasVars, sigVars, trainVars>>

\* any vertex set with positive degrees, as the loader leaves it
NegInit ==
    /\ pc = "InitNegTable"
    /\ built = {"hash", "graph", "alias", "emb"}
    /\ num_vertices \in 1..MaxNegVertices
    /\ \E deg \in [0..(num_vertices - 1) -> 1..MaxDegree] :
         vertex = [i \in 0..(num_vertices - 1) |-> [name |-> <<65 + i>>, degree |-> deg[i]]]
    /\ input_u = Empty
    /\ input_v = Empty
    /\ input_w = Empty
    /\ rk = 0
    /\ max_num_vertices = VertexChunk
    /\ vertex_hash_table = Empty
    /\ edge_source_id = Empty
    /\ edge_target_id = Empty
    /\ num_edges = 0
    /\ edge_weight = Empty
    /\ AliasIdle
    /\ NegIdle
    /\ SigIdle
    /\ TrainIdle

NegNext == InitNegTable

SpecNeg == NegInit /\ [][NegNext]_vars

(***************************************************************************)
(* C5                                                                      *)
(***************************************************************************)
\* the sum of the sampling weights s[v] of the vertices v <= vid
CumShare(vid) == PowSum(vertex, vid + 1)

\* the lowest-id vertex whose cumulative normalized share, CumShare(vid) over
\* the sum of all weights, is the first to get past (k + 1) / neg_table_size
\* (read as "reaches": at the last slot the threshold is 1, which no share
\* exceeds)
FirstPast(k) ==
    CHOOSE vid \in 0..(num_vertices - 1) :
        /\ CumShare(vid) * neg_table_size >= (k + 1) * PowSum(vertex, num_vertices)
        /\ \A low \in 0..(vid - 1) :
             CumShare(low) * neg_table_size < (k + 1) * PowSum(vertex, num_vertices)

\* C5: after InitNegTable every slot k holds the lowest-id vertex whose
\* cumulative normalized share first gets past (k + 1) / tableSize, for every
\* degree vector, also one with a vertex whose share is below 1 / tableSize.
C5_SlotIsFirstPast ==
    "neg" \in built =>
        \A k \in 0..(neg_table_size - 1) : neg_table[k] = FirstPast(k)

(***************************************************************************)
(* SigmoidLookup: InitSigmoidTable and FastSigmoid                         *)
(***************************************************************************)
\* line 222: x = 2 * SIGMOID_BOUND * k / sigmoid_table_size - SIGMOID_BOUND, an
\* expression of ints (a macro, an int and a const int) whose quotient is an
\* integer division, converted to real afterwards; in thousandths
GridX(k) == ((2 * SIGMOID_BOUND * k) \div sigmoid_table_size - SIGMOID_BOUND) * XDen

\* lines 219-224: sigmoid_table_size + 1 cells are allocated and the loop writes
\* the cells 0..sigmoid_table_size-1, each cell from its own index only; the
\* table is held as the two counts
SigmoidTable == [cells |-> sigmoid_table_size + 1, filled |-> sigmoid_table_size]

\* lines 222-223: what cell k of the table holds: 1 / (1 + exp(-x)) for the x of
\* line 222, kept as <<x>> (the sigmoid is strictly increasing, so x names the
\* value), and <<>> for an allocated cell the loop did not write
TableCell(k) == IF k < sigmoid_table.filled THEN <<GridX(k)>> ELSE <<>>

\* line 423
InitSigmoidTable ==
    /\ pc = "InitSigmoidTable"
    /\ IF alloc_fail = "sigmoid"
       THEN \* line 219 gives NULL, which nothing tests: line 223 writes through it
            /\ pc' = "fault"
            /\ UNCHANGED <<sigmoid_table, built>>
       ELSE /\ sigmoid_table' = SigmoidTable
            /\ built' = built \cup {"sigmoid"}
            /\ pc' = "gsl_rng_set"
    /\ UNCHANGED <<loadVars, aliasVars, negVars, fs, trainVars>>

\* line 231: k = (x + SIGMOID_BOUND) * sigmoid_table_size / SIGMOID_BOUND / 2,
\* computed in floating point and cut to an int (x in thousandths)
BucketOf(x) == ((x + SIGMOID_BOUND * XDen) * sigmoid_table_size) \div (SIGMOID_BOUND * 2 * XDen)

\* what a read of a table cell that was never written may give
Garbage == {[kind |-> "one", x |-> 0], [kind |-> "zero", x |-> 0],
            [kind |-> "garbage", x |-> 0]}

\* lines 227-233: the results FastSigmoid(x) can have
FastSigmoid(x) ==
    IF x > SIGMOID_BOUND * XDen THEN {[kind |-> "one", x |-> 0]}
    ELSE IF x < -SIGMOID_BOUND * XDen THEN {[kind |-> "zero", x |-> 0]}
    ELSE IF TableCell(BucketOf(x)) = <<>> THEN Garbage
    ELSE {[kind |-> "bucket", x |-> TableCell(BucketOf(x))[1]]}

\* the arguments FastSigmoid is called with
XSamples == (-SIGMOID_BOUND * XDen - XMargin)..(SIGMOID_BOUND * XDen + XMargin)

\* line 247: a call of FastSigmoid (the function keeps no state: one call per
\* behaviour shows them all)
FastSigmoidCall ==
    /\ "sigmoid" \in built
    /\ fs = NoCall
    /\ \E x \in XSamples : \E r \in FastSigmoid(x) :
         fs' = [x |-> x,
                k |-> IF x > SIGMOID_BOUND * XDen \/ x < -SIGMOID_BOUND * XDen
                      THEN Uninit ELSE BucketOf(x),
                ret |-> r]
    /\ UNCHANGED <<pc, built, loadVars, aliasVars, negVars, sigmoid_table, trainVars>>

SigInit ==
    /\ pc = "InitSigmoidTable"
    /\ built = {"hash", "graph", "alias", "emb", "neg"}
    /\ LoadIdle
    /\ num_edges = 0
    /\ edge_weight = Empty
    /\ AliasIdle
    /\ NegIdle
    /\ SigIdle
    /\ TrainIdle

SigNext == InitSigmoidTable \/ FastSigmoidCall

SpecSigmoid == SigInit /\ [][SigNext]_vars

(***************************************************************************)
(* C6, C7                                                                  *)
(***************************************************************************)
\* C6: InitSigmoidTable fills bucket k, for every k in [0, tableSize), with the
\* sigmoid of x_k = -bound + 2 * bound * k / tableSize: the grid points are
\* linearly spaced (1000 * x_k = 12 * k - 6000) and distinct buckets use
\* distinct x.
C6_GridLinear ==
    "sigmoid" \in built =>
        /\ \A k \in 0..(sigmoid_table_size - 1) :
              TableCell(k) = <<2 * SIGMOID_BOUND * k - SIGMOID_BOUND * XDen>>
        /\ \A j, k \in 0..(sigmoid_table_size - 1) :
              j # k => TableCell(j) # TableCell(k)

\* C7: FastSigmoid returns 1 for x > bound, 0 for x < -bound, and for every x
\* with -bound <= x <= bound, both ends included, the value of a bucket with
\* index in [0, tableSize) that InitSigmoidTable has filled; the bucket index
\* never decreases as x increases (from each argument to the next one up).
C7_EvalInTable ==
    fs.ret.kind # "none" =>
        /\ fs.x > SIGMOID_BOUND * XDen => fs.ret.kind = "one"
        /\ fs.x < -SIGMOID_BOUND * XDen => fs.ret.kind = "zero"
        /\ (fs.x >= -SIGMOID_BOUND * XDen /\ fs.x <= SIGMOID_BOUND * XDen) =>
              /\ fs.k \in 0..(sigmoid_table_size - 1)
              /\ TableCell(fs.k) # <<>>
              /\ fs.ret = [kind |-> "bucket", x |-> TableCell(fs.k)[1]]
              /\ fs.x - 1 >= -SIGMOID_BOUND * XDen => BucketOf(fs.x - 1) <= fs.k

(***************************************************************************)
(* EmbeddingStore: InitVector                                              *)
(*                                                                         *)
(* A cell of an embedding matrix is held as [noise, adds]: noise is <<j>>  *)
(* when the cell was initialised from the j-th draw of unif_rand and <<>>  *)
(* when it was initialised to 0, adds is the number of += applied since.   *)
(***************************************************************************)
ZeroCell == [noise |-> <<>>, adds |-> 0]

\* lines 187-188: for b, for a: emb_vertex[a * dim + b] = (unif_rand() - 0.5) / dim;
\* cell a * dim + b is written from draw number b * num_vertices + a
NoiseCell(i, nv, d) == [noise |-> <<(i % d) * nv + (i \div d)>>, adds |-> 0]

\* lines 185-186 and 190-191: posix_memalign leaves the pointer as it was when
\* it fails, and the test that follows compares the pointer with NULL.  The
\* failure is seen when the pointer is still NULL (no earlier call allocated
\* the matrix); otherwise the matrix of the earlier call is taken for the new
\* one, and the loop that follows leaves it when it is too small.
Unseen(site, matrix) == alloc_fail = site /\ matrix # Empty
TooSmall(site, matrix) == Unseen(site, matrix) /\ Size(matrix) < num_vertices * dim

\* lines 187-188, 192-193: the cells 0..num_vertices*dim-1 are written; cells
\* of an earlier, larger matrix beyond them keep what they held
Written(site, matrix, cells) ==
    [i \in IF Unseen(site, matrix) THEN DOMAIN matrix ELSE 0..(num_vertices * dim - 1) |->
        IF i < num_vertices * dim THEN cells[i] ELSE matrix[i]]

\* lines 187-188: the cells InitVector writes to emb_vertex
NoiseCells == [i \in 0..(num_vertices * dim - 1) |-> NoiseCell(i, num_vertices, dim)]

\* lines 192-193: the cells InitVector writes to emb_context
ZeroCells == [i \in 0..(num_vertices * dim - 1) |-> ZeroCell]

\* lines 181-194, called at lines 420-421
InitVector ==
    /\ pc = "InitVector"
    /\ IF (alloc_fail = "emb_vertex" /\ emb_vertex = Empty)
          \/ (alloc_fail = "emb_context" /\ emb_context = Empty)
       THEN /\ emb_vertex' = IF alloc_fail = "emb_vertex" THEN emb_vertex
                             ELSE Written("emb_vertex", emb_vertex, NoiseCells)
            /\ emb_context' = emb_context
            /\ report' = AllocError
            /\ malloc_exit' = 1
            /\ pc' = "returned"
            /\ built' = built
       ELSE IF TooSmall("emb_vertex", emb_vertex) \/ TooSmall("emb_context", emb_context)
       THEN /\ pc' = "fault"
            /\ UNCHANGED <<emb_vertex, emb_context, report, malloc_exit, built>>
       ELSE /\ emb_vertex' = Written("emb_vertex", emb_vertex, NoiseCells)
            /\ emb_context' = Written("emb_context", emb_context, ZeroCells)
            /\ built' = built \cup {"emb"}
            /\ pc' = IF malloc_exit # 0 THEN "returned" ELSE "InitNegTable"
            /\ UNCHANGED <<report, malloc_exit>>
    /\ UNCHANGED <<loadVars, aliasVars, negVars, sigVars, order, dim, num_negative,
                   num_threads, total_samples, pt_a, rateVars, outVars, thr, envVars,
                   rngVars>>

(***************************************************************************)
(* Trainer: TrainLINEThread and Update                                     *)
(***************************************************************************)
\* rho is held in units of init_rho as a numerator over RhoDen
RhoDen == RhoFloorInv * (total_samples + 1)

\* lines 254-257: the locals of a thread that pthread_create has just started
NewThread ==
    [pcw |-> "loop", count |-> 0, last_count |-> 0, curedge |-> Uninit,
     u |-> Uninit, v |-> Uninit, d |-> 0, vec_error |-> [c \in 0..(dim - 1) |-> 0],
     seed |-> 0]

\* a plausible slip in line 262: the division by num_threads is forgotten
ExitNow_NoDivision(count) == count > total_samples + 2

\* line 262: count > total_samples / num_threads + 2
ExitNow(count) == count > total_samples \div num_threads + 2

\* a plausible slip in line 264: the flush comes as soon as the count has
\* advanced by the interval
FlushDue_AtLeast(count, last_count) == count - last_count >= FlushEvery

\* line 264: count - last_count > 10000
FlushDue(count, last_count) == count - last_count > FlushEvery

\* lines 259-264: the exit test, then the test for a flush of the local count:
\* where the thread goes from the top of its loop.  Both tests read only the
\* thread's locals and variables no thread writes.
LoopTop(count, last_count) ==
    IF ExitNow(count) THEN "done"
    ELSE IF FlushDue(count, last_count) THEN "flush"
    ELSE "sample"

\* lines 259-264 when the thread enters its loop
ThreadLoop(t) ==
    /\ thr[t].pcw = "loop"
    /\ thr' = [thr EXCEPT ![t].pcw = LoopTop(thr[t].count, thr[t].last_count)]
    /\ UNCHANGED <<envVars, rngVars, pc, built, loadVars, aliasVars, negVars, sigVars, mainVars, rateVars,
                   embVars, outVars>>

\* lines 266-267
ThreadFlush(t) ==
    /\ thr[t].pcw = "flush"
    /\ current_sample_count' = current_sample_count + (thr[t].count - thr[t].last_count)
    /\ thr' = [thr EXCEPT ![t].last_count = thr[t].count, ![t].pcw = "rho"]
    /\ UNCHANGED <<envVars, rngVars, pc, built, loadVars, aliasVars, negVars, sigVars, mainVars, rho,
                   embVars, outVars>>

\* line 270: rho = init_rho * (1 - current_sample_count / (real)(total_samples + 1))
ThreadRho(t) ==
    /\ thr[t].pcw = "rho"
    /\ rho' = RhoFloorInv * (total_samples + 1 - current_sample_count)
    /\ thr' = [thr EXCEPT ![t].pcw = "clamp"]
    /\ UNCHANGED <<envVars, rngVars, pc, built, loadVars, aliasVars, negVars, sigVars, mainVars,
                   current_sample_count, embVars, outVars>>

\* line 271: if (rho < init_rho * 0.0001) rho = init_rho * 0.0001
ThreadClamp(t) ==
    /\ thr[t].pcw = "clamp"
    /\ rho' = IF rho * RhoFloorInv < RhoDen THEN total_samples + 1 ELSE rho
    /\ thr' = [thr EXCEPT ![t].pcw = "sample"]
    /\ UNCHANGED <<envVars, rngVars, pc, built, loadVars, aliasVars, negVars, sigVars, mainVars,
                   current_sample_count, embVars, outVars>>

\* The generators are deterministic: after gsl_rng_set(gsl_r, 314159265) the
\* generator gives one fixed sequence, and Rand gives one fixed sequence from
\* seed 0.  The model does not compute the sequences: a value is any value
\* when it is first drawn and is remembered from then on.  It remembers them in
\* the runs of one thread only; with more threads every value is any value.
Recording == num_threads = 1

\* line 274: the edges the next two values of gsl_r can give through
\* SampleAnEdge (gsl_rng_uniform gives values of the grid)
GslEdges ==
    IF Recording /\ gsl_r.pos < Len(gsl_r.known)
    THEN {gsl_r.known[gsl_r.pos + 1]}
    ELSE {SampleAnEdge(a, b) : a \in 0..(Den1 - 1), b \in 0..(Den2 - 1)}

\* line 239: the indices the next call of Rand by thread t can give
RandIndices(t) ==
    IF Recording /\ thr[t].seed < Len(rand_seq)
    THEN {rand_seq[thr[t].seed + 1]}
    ELSE 0..(neg_table_size - 1)

\* a sequence of known values after value number `at` was found to be x
Learn(known, at, x) == IF Recording /\ at = Len(known) THEN Append(known, x) ELSE known

\* line 274: the thread enters gsl_rng_uniform(gsl_r); nothing guards the call
ThreadDraw(t) ==
    /\ thr[t].pcw = "sample"
    /\ thr' = [thr EXCEPT ![t].pcw = "draw"]
    /\ UNCHANGED <<pc, built, loadVars, aliasVars, negVars, sigVars, mainVars, rateVars,
                   embVars, outVars, envVars, rngVars>>

\* lines 274-279: the two values are drawn and give an edge, the thread reads
\* its ends and clears vec_error.  An index outside the edge arrays would make
\* lines 275-276 read outside them: the thread is then "fault".
ThreadSample(t) ==
    /\ thr[t].pcw = "draw"
    /\ \E e \in GslEdges :
         /\ thr' = [thr EXCEPT ![t] =
                IF e \in 0..(num_edges - 1)
                THEN [@ EXCEPT !.curedge = e,
                               !.u = edge_source_id[e],
                               !.v = edge_target_id[e],
                               !.vec_error = [c \in 0..(dim - 1) |-> 0],
                               !.d = 0,
                               !.pcw = "pair"]
                ELSE [@ EXCEPT !.curedge = e, !.pcw = "fault"]]
         /\ gsl_r' = [gsl_r EXCEPT !.pos = @ + 1,
                                   !.known = Learn(@, gsl_r.pos, e)]
    /\ UNCHANGED <<pc, built, loadVars, aliasVars, negVars, sigVars, mainVars, rateVars,
                   embVars, outVars, envVars, rand_seq>>

\* the cells of row `row`: row * dim + c for c in 0..dim-1 (lines 278, 294)
RowCells(row) == {row * dim + c : c \in 0..(dim - 1)}

\* line 249: vec_v[c] += g * vec_u[c] for every c, on the row lv / dim of matrix m
AddToRow(m, row) ==
    [i \in DOMAIN m |-> IF i \in RowCells(row) THEN [m[i] EXCEPT !.adds = @ + 1] ELSE m[i]]

\* line 295: if (order == 1) the target row is a row of emb_vertex
PairInVertex == order = 1

\* a plausible slip in line 296: the test of the order is forgotten
PairInContext_Always == TRUE

\* line 296: if (order == 2) the target row is a row of emb_context
PairInContext == order = 2

\* lines 282-297: the pair d of the sampled edge: the target (v itself, or
\* neg_table[Rand(seed)], where Rand gives any index of the table) and Update
\* on the row of the target, in emb_vertex for order 1 and in emb_context for
\* order 2; line 248 adds to every cell of vec_error
ThreadPair(t) ==
    /\ thr[t].pcw = "pair"
    /\ \E idx \in IF thr[t].d = 0 THEN {0} ELSE RandIndices(t) :
         LET target == IF thr[t].d = 0 THEN thr[t].v ELSE neg_table[idx]
         IN /\ emb_vertex' = IF PairInVertex THEN AddToRow(emb_vertex, target) ELSE emb_vertex
            /\ emb_context' = IF PairInContext THEN AddToRow(emb_context, target) ELSE emb_context
            /\ thr' = [thr EXCEPT ![t] =
                   [@ EXCEPT !.vec_error = [c \in 0..(dim - 1) |-> @[c] + 1],
                             !.d = @ + 1,
                             !.seed = IF thr[t].d = 0 THEN @ ELSE @ + 1,
                             !.pcw = IF thr[t].d + 1 = num_negative + 1
                                     THEN "apply" ELSE "pair"]]
            /\ rand_seq' = IF thr[t].d = 0 THEN rand_seq
                           ELSE Learn(rand_seq, thr[t].seed, idx)
    /\ UNCHANGED <<pc, built, loadVars, aliasVars, negVars, sigVars, mainVars, rateVars,
                   outVars, envVars, gsl_r>>

\* lines 298-300: emb_vertex[c + lu] += vec_error[c] for every c; count++; then
\* the tests at the top of the loop (lines 262-264)
ThreadApply(t) ==
    /\ thr[t].pcw = "apply"
    /\ emb_vertex' = AddToRow(emb_vertex, thr[t].u)
    /\ thr' = [thr EXCEPT ![t].count = @ + 1,
                          ![t].pcw = LoopTop(thr[t].count + 1, thr[t].last_count)]
    /\ UNCHANGED <<envVars, rngVars, pc, built, loadVars, aliasVars, negVars, sigVars, mainVars, rateVars,
                   emb_context, outVars>>

\* one step of thread t
ThreadStep(t) ==
    \/ ThreadLoop(t)
    \/ ThreadFlush(t)
    \/ ThreadRho(t)
    \/ ThreadClamp(t)
    \/ ThreadDraw(t)
    \/ ThreadSample(t)
    \/ ThreadPair(t)
    \/ ThreadApply(t)

(***************************************************************************)
(* Orchestrator: TrainLINEMain and VectorOutput                            *)
(***************************************************************************)
\* an edge stream from its rows <<u, v, w>>
StreamOf(rows) ==
    [u |-> [k \in 0..(Len(rows) - 1) |-> rows[k + 1][1]],
     v |-> [k \in 0..(Len(rows) - 1) |-> rows[k + 1][2]],
     w |-> [k \in 0..(Len(rows) - 1) |-> rows[k + 1][3]]]

\* the edge streams TrainLINEMain is called with: one edge between two names
\* that share a home cell of the hash table; the names B, A, B, C; a self-loop
TrainStreams ==
    {StreamOf(<< <<(<<65>>), (<<68>>), 1>> >>),
     StreamOf(<< <<(<<66>>), (<<65>>), 1>>, <<(<<66>>), (<<67>>), 2>> >>),
     StreamOf(<< <<(<<65>>), (<<65>>), 2>> >>)}

\* the output containers the caller passes: empty, or holding an earlier pair
CallerOutputs ==
    {[vertices |-> <<>>, vectors |-> <<>>],
     [vertices |-> << <<90>> >>, vectors |-> << <<ZeroCell>> >>]}

\* the values of order_param the model calls with
OrderParams == 0..3

\* what the call that has just returned was given, and the pairs it appended
LastRun ==
    [made |-> TRUE, u |-> input_u, v |-> input_v, w |-> input_w, order |-> order,
     dim |-> dim, num_negative |-> num_negative, total_samples |-> total_samples,
     num_threads |-> num_threads, alloc_fail |-> alloc_fail,
     vertices |-> SubSeq(output_vertices, Len(caller_vertices) + 1, Len(output_vertices)),
     vectors |-> SubSeq(output_vectors, Len(caller_vectors) + 1, Len(output_vectors))]

\* lines 382-399: a call (the first of the process, or one after a call that
\* has returned, up to `calls` calls), with its arguments drawn from the sets
\* given and the allocation that fails in it from `failures`; the parameters
\* are copied to the module's variables, rho starts at init_rho, the vertex
\* array and the thread handles are allocated.  Every other module variable
\* keeps what the call before left in it.
CallWith(streams, outs, orders, dims, negatives, samples, threads, failures, calls) ==
    /\ pc \in {"idle", "returned"}
    /\ run < calls
    /\ run' = run + 1
    /\ prev' = IF run = 0 THEN NoRun ELSE LastRun
    /\ alloc_fail' \in failures
    /\ built' = {}
    /\ thr' = Empty
    /\ report' = ""
    /\ \E in \in streams, out \in outs, order_param \in orders,
          dim_param \in dims, num_negative_param \in negatives,
          total_samples_param \in samples, num_threads_param \in threads :
         /\ input_u' = in.u
         /\ input_v' = in.v
         /\ input_w' = in.w
         /\ output_vertices' = out.vertices
         /\ output_vectors' = out.vectors
         /\ caller_vertices' = out.vertices
         /\ caller_vectors' = out.vectors
         /\ dim' = dim_param
         /\ order' = order_param
         /\ num_negative' = num_negative_param
         /\ total_samples' = total_samples_param * SamplesUnit
         /\ num_threads' = num_threads_param
         /\ rho' = RhoFloorInv * (total_samples_param * SamplesUnit + 1)
    /\ current_sample_count' = 0
    /\ vertex' = Empty
    /\ pc' = "check_order"
    /\ UNCHANGED <<rk, num_vertices, max_num_vertices, vertex_hash_table,
                   edge_source_id, edge_target_id, num_edges, edge_weight, aliasVars,
                   negVars, sigVars, malloc_exit, pt_a, embVars, rngVars>>

\* the calls of the whole-run specification: one call, every allocation succeeds
Call ==
    CallWith(TrainStreams, CallerOutputs, OrderParams, 1..MaxDim, 0..MaxNegative,
             0..MaxSamples, 1..MaxThreads, {"none"}, 1)

\* a plausible slip in lines 400-404: the return is forgotten
AfterOrderError_NoReturn == "InitHashTable"

\* line 403: return
AfterOrderError == "returned"

\* lines 400-404
CheckOrder ==
    /\ pc = "check_order"
    /\ IF order # 1 /\ order # 2
       THEN /\ report' = "Error: order should be either 1 or 2!"
            /\ pc' = AfterOrderError
       ELSE /\ report' = report
            /\ pc' = "InitHashTable"
    /\ UNCHANGED <<envVars, rngVars, built, loadVars, aliasVars, negVars, sigVars, order, dim, num_negative,
                   num_threads, total_samples, malloc_exit, pt_a, rateVars, embVars,
                   outVars, thr>>

\* a plausible slip in lines 427-428: the generator is allocated and seeded
\* once per process, so that a later call goes on in the sequence
SeededPos_Continue == gsl_r.pos

\* line 428: gsl_rng_set puts the generator at the start of its sequence
SeededPos == 0

\* lines 425-435: a generator is allocated and seeded with the constant of
\* line 428 (line 432 takes its first value); a = 0 of the create loop.  What
\* is known of the sequence was found with the alias tables of edge_weight: it
\* says nothing about the edges other tables give.
SeedGenerator ==
    /\ pc = "gsl_rng_set"
    /\ gsl_r' = [pos |-> SeededPos, key |-> edge_weight,
                 known |-> IF gsl_r.key = edge_weight THEN gsl_r.known ELSE <<>>]
    /\ pt_a' = 0
    /\ pc' = "create"
    /\ UNCHANGED <<built, loadVars, aliasVars, negVars, sigVars, order, dim, num_negative,
                   num_threads, total_samples, malloc_exit, report, rateVars, embVars,
                   outVars, thr, envVars, rand_seq>>

\* line 435: for (a = 0; a < num_threads; a++) pthread_create(...)
CreateThread ==
    /\ pc = "create"
    /\ IF pt_a < num_threads
       THEN IF alloc_fail = "pt"
            THEN \* line 398 gave NULL, which nothing tests: pthread_create
                 \* stores the handle through &pt[0] before it starts a thread
                 /\ pc' = "fault"
                 /\ UNCHANGED <<thr, pt_a>>
            ELSE /\ thr' = [t \in 0..pt_a |-> IF t = pt_a THEN NewThread ELSE thr[t]]
                 /\ pt_a' = pt_a + 1
                 /\ pc' = pc
       ELSE /\ pt_a' = 0
            /\ pc' = "join"
            /\ thr' = thr
    /\ UNCHANGED <<envVars, rngVars, built, loadVars, aliasVars, negVars, sigVars, order, dim, num_negative,
                   num_threads, total_samples, malloc_exit, report, rateVars, embVars,
                   outVars>>

\* a plausible slip in line 436: the join does not wait for the thread
Joinable_NoWait(t) == TRUE

\* line 436: pthread_join(pt[a]) returns once thread a has exited
Joinable(t) == thr[t].pcw = "done"

\* line 436: for (a = 0; a < num_threads; a++) pthread_join(pt[a], NULL)
JoinThread ==
    /\ pc = "join"
    /\ IF pt_a < num_threads
       THEN /\ Joinable(pt_a)
            /\ pt_a' = pt_a + 1
            /\ pc' = pc
       ELSE /\ pt_a' = pt_a
            /\ pc' = "VectorOutput"
    /\ UNCHANGED <<envVars, rngVars, built, loadVars, aliasVars, negVars, sigVars, order, dim, num_negative,
                   num_threads, total_samples, malloc_exit, report, rateVars, embVars,
                   outVars, thr>>

\* a plausible slip in line 361: the context matrix is read for order 2
OutputCell_ByOrder(a, b) ==
    IF order = 2 THEN emb_context[a * dim + b] ELSE emb_vertex[a * dim + b]

\* line 361: emb_vertex[a * dim + b]
OutputCell(a, b) == emb_vertex[a * dim + b]

\* lines 356-364: the names and the vectors pushed back for a in 0..num_vertices-1
OutputNames == [i \in 1..num_vertices |-> vertex[i - 1].name]
OutputRows == [i \in 1..num_vertices |-> [j \in 1..dim |-> OutputCell(i - 1, j - 1)]]

\* lines 354-365, called at line 442
VectorOutput ==
    /\ pc = "VectorOutput"
    /\ output_vertices' = output_vertices \o OutputNames
    /\ output_vectors' = output_vectors \o OutputRows
    /\ pc' = "returned"
    /\ UNCHANGED <<envVars, rngVars, built, loadVars, aliasVars, negVars, sigVars, mainVars, rateVars,
                   embVars, caller_vertices, caller_vectors, thr>>

\* the state at program start
Init ==
    /\ pc = "idle"
    /\ built = {}
    /\ LoadIdle
    /\ num_edges = 0
    /\ edge_weight = Empty
    /\ AliasIdle
    /\ NegIdle
    /\ SigIdle
    /\ TrainIdle

Next ==
    \/ Call
    \/ CheckOrder
    \/ InitHashTable
    \/ VectorReadDataBegin
    \/ ReadRow
    \/ InitAliasTable
    \/ InitVector
    \/ InitNegTable
    \/ InitSigmoidTable
    \/ SeedGenerator
    \/ CreateThread
    \/ \E t \in DOMAIN thr : ThreadStep(t)
    \/ JoinThread
    \/ VectorOutput

Spec == Init /\ [][Next]_vars

(***************************************************************************)
(* The training runs: the whole program, called with one edge stream and   *)
(* with sample budgets above zero, its threads scheduled fairly            *)
(***************************************************************************)
\* the stream of the training runs: two edges from B, of weights 1 and 2
TrainingStream == StreamOf(<< <<(<<66>>), (<<65>>), 1>>, <<(<<66>>), (<<67>>), 2>> >>)

\* the calls of the training runs
CallToTrain ==
    CallWith({TrainingStream}, {[vertices |-> <<>>, vectors |-> <<>>]}, {1, 2}, {1}, {0},
             0..MaxTrainSamples, 1..MaxThreads, {"none"}, 1)

\* thread t exists and takes a step
ThreadRuns(t) == t \in DOMAIN thr /\ ThreadStep(t)

TrainNext ==
    \/ CallToTrain
    \/ CheckOrder
    \/ InitHashTable
    \/ VectorReadDataBegin
    \/ ReadRow
    \/ InitAliasTable
    \/ InitVector
    \/ InitNegTable
    \/ InitSigmoidTable
    \/ SeedGenerator
    \/ CreateThread
    \/ \E t \in DOMAIN thr : ThreadStep(t)
    \/ JoinThread
    \/ VectorOutput

\* the operating system runs every thread that can run: a created thread is
\* never left for ever at a statement it could execute
SpecTrain ==
    /\ Init
    /\ [][TrainNext]_vars
    /\ \A t \in 0..(MaxThreads - 1) : WF_vars(ThreadRuns(t))

(***************************************************************************)
(* C3, C8, C9, C10                                                         *)
(***************************************************************************)
\* the tables a training run builds before it creates its threads
AllBuilt == {"hash", "graph", "alias", "emb", "neg", "sigmoid"}

\* C3: after a successful run the pairs the run appended to the caller's
\* containers are one (name, vector) pair per distinct name of the input, in
\* order of first occurrence in the triples (which is vertex-id order), and the
\* vector of vertex id has length dim and is row id of emb_vertex, for order 1
\* and for order 2.
C3_OutputIsVertexRows ==
    (pc = "returned" /\ order \in {1, 2} /\ malloc_exit = 0) =>
        LET names == FirstOccurrences(NameStream(num_edges), <<>>)
        IN /\ output_vertices = caller_vertices \o names
           /\ \A i, j \in 1..Len(names) : i # j => names[i] # names[j]
           /\ \A k \in 0..(num_edges - 1) :
                 /\ \E i \in 1..Len(names) : names[i] = input_u[k]
                 /\ \E i \in 1..Len(names) : names[i] = input_v[k]
           /\ \A i \in 1..Len(names) : vertex[i - 1].name = names[i]
           /\ Len(output_vectors) = Len(caller_vectors) + Len(names)
           /\ SubSeq(output_vectors, 1, Len(caller_vectors)) = caller_vectors
           /\ \A i \in 1..Len(names) :
                 LET vec == output_vectors[Len(caller_vectors) + i]
                 IN /\ Len(vec) = dim
                    /\ \A b \in 0..(dim - 1) : vec[b + 1] = emb_vertex[(i - 1) * dim + b]

\* a run of order 2 on the names B, A, B, C with dim 2 has returned: three
\* pairs, in the order B, A, C, and training has written both matrices
C3_Witness ==
    /\ pc = "returned"
    /\ order = 2
    /\ dim = 2
    /\ caller_vertices = <<>>
    /\ output_vertices = << <<66>>, <<65>>, <<67>> >>
    /\ Len(output_vectors) = 3
    /\ \E i \in DOMAIN emb_context : emb_context[i].adds > 0
    /\ \E i \in DOMAIN emb_vertex : emb_vertex[i].adds > 0

\* C8: under fair scheduling every thread that was created reaches the end of
\* its loop, whatever the interleaving; it is past its loop exactly when its own
\* count is above floor(total_samples / num_threads) + 2, so that it has then
\* processed more than floor(total_samples / num_threads) samples and at most
\* floor(total_samples / num_threads) + 3, whatever the other threads and
\* current_sample_count are; the step that ends a thread changes no other
\* thread and not the shared counter.
C8_WorkersFinish ==
    /\ \A t \in 0..(MaxThreads - 1) :
          [](t \in DOMAIN thr => <>(t \in DOMAIN thr /\ thr[t].pcw = "done"))
    /\ [](\A t \in DOMAIN thr :
             /\ thr[t].pcw # "fault"
             /\ thr[t].pcw = "done" <=> thr[t].count > total_samples \div num_threads + 2
             /\ thr[t].pcw = "done" =>
                   /\ thr[t].count > total_samples \div num_threads
                   /\ thr[t].count <= total_samples \div num_threads + 3)
    /\ [][\A t \in DOMAIN thr :
             (thr[t].pcw # "done" /\ t \in DOMAIN thr' /\ thr'[t].pcw = "done") =>
                 /\ \A s \in DOMAIN thr \ {t} : thr'[s] = thr[s]
                 /\ current_sample_count' = current_sample_count
                 /\ rho' = rho]_vars

\* two threads share a budget they do not divide evenly; thread 0 is done with
\* its floor(T / 2) + 3 samples, having flushed its count on the way, while
\* thread 1 has not processed a sample yet
C8_Witness ==
    /\ num_threads = 2
    /\ total_samples > 0
    /\ total_samples % num_threads # 0
    /\ DOMAIN thr = {0, 1}
    /\ thr[0].pcw = "done"
    /\ thr[0].count = total_samples \div num_threads + 3
    /\ thr[0].last_count > 0
    /\ thr[1].pcw # "done"
    /\ thr[1].count = 0

\* C9: in a run that trains, a thread exists only when the vertex index, the
\* edge arrays, the alias table, the embedding matrices, the negative table and
\* the sigmoid table are all built, and no step changes them once a thread
\* exists; the create loop makes threads 0..num_threads-1 and no step outside
\* it makes a thread; VectorOutput runs only when every thread is done, and no
\* step writes an embedding cell during or after it.
C9_BuildTrainOutputOrder ==
    /\ [](/\ thr # Empty =>
               /\ built = AllBuilt
               /\ pc \in {"create", "join", "VectorOutput", "returned"}
               /\ gsl_r.key = edge_weight
               /\ rk = num_edges
               /\ DOMAIN alias = 0..(num_edges - 1)
               /\ DOMAIN emb_vertex = 0..(num_vertices * dim - 1)
               /\ DOMAIN emb_context = 0..(num_vertices * dim - 1)
               /\ DOMAIN neg_table = 0..(neg_table_size - 1)
               /\ sigmoid_table = SigmoidTable
          /\ pc = "create" => DOMAIN thr = 0..(pt_a - 1) /\ pt_a <= num_threads
          /\ (pc \in {"join", "VectorOutput", "returned"} /\ built = AllBuilt) =>
                DOMAIN thr = 0..(num_threads - 1)
          /\ (pc \in {"VectorOutput", "returned"} /\ built = AllBuilt) =>
                \A t \in DOMAIN thr : thr[t].pcw = "done")
    /\ [][/\ thr # Empty =>
               /\ UNCHANGED <<loadVars, alias, prob, negVars, sigmoid_table>>
               /\ built' = built
          /\ pc # "create" => DOMAIN thr' = DOMAIN thr
          /\ pc \in {"VectorOutput", "returned"} => UNCHANGED embVars]_vars

\* VectorOutput is about to read the embeddings of a run of two threads: both
\* are done and their training has written the matrix it reads
C9_Witness ==
    /\ pc = "VectorOutput"
    /\ num_threads = 2
    /\ DOMAIN thr = {0, 1}
    /\ \A t \in DOMAIN thr : thr[t].pcw = "done" /\ thr[t].count > 0
    /\ \E i \in DOMAIN emb_vertex : emb_vertex[i].adds > 0

\* C10: a call with order outside {1, 2} reports the error and returns; from
\* the order check on it loads no graph, builds no table, creates no thread and
\* leaves the output containers as the caller passed them.
C10_BadOrderReturns ==
    (pc # "idle" /\ order \notin {1, 2}) =>
        /\ pc \in {"check_order", "returned"}
        /\ pc = "returned" => report = "Error: order should be either 1 or 2!"
        /\ built = {}
        /\ num_edges = 0
        /\ num_vertices = 0
        /\ edge_source_id = Empty
        /\ edge_target_id = Empty
        /\ edge_weight = Empty
        /\ vertex_hash_table = Empty
        /\ alias = Empty
        /\ prob = Empty
        /\ neg_table = Empty
        /\ sigmoid_table.cells = 0
        /\ emb_vertex = Empty
        /\ emb_context = Empty
        /\ thr = Empty
        /\ output_vertices = caller_vertices
        /\ output_vectors = caller_vectors

\* a call with order 3, edges in the input and a pair already in the output
\* containers has returned
C10_Witness ==
    /\ pc = "returned"
    /\ order = 3
    /\ Size(input_u) > 0
    /\ report # ""
    /\ caller_vertices # <<>>
    /\ output_vertices = caller_vertices

(***************************************************************************)
(* C13                                                                     *)
(***************************************************************************)
\* C13: while the only thread of a run works through the pairs of a sampled
\* edge (u, v), no per-pair update changes a cell of row u of emb_vertex, for
\* order 1 and order 2 and every target, a self-loop and a negative sample
\* equal to u included (the row changes only in the addition after the pairs).
C13_SourceRowDeferred ==
    [][\A t \in DOMAIN thr :
          (num_threads = 1 /\ thr[t].pcw = "pair") =>
              \A c \in RowCells(thr[t].u) : emb_vertex'[c] = emb_vertex[c]]_vars

(***************************************************************************)
(* C14                                                                     *)
(***************************************************************************)
\* C14: whenever a thread is at a pair of its sampled edge, where Update reads
\* rho (line 247), rho lies between init_rho * 0.0001 and init_rho, both
\* included, whatever the other threads are doing.
C14_RhoInRange ==
    \A t \in DOMAIN thr :
        thr[t].pcw = "pair" =>
            /\ rho * RhoFloorInv >= RhoDen
            /\ rho <= RhoDen

(***************************************************************************)
(* C15                                                                     *)
(***************************************************************************)
\* C15 as stated: a thread flushes each time its count has advanced by the
\* interval (10000 in the program, FlushEvery here) since its last flush: the
\* delta it adds is exactly the interval and its flushes come at the multiples
\* of the interval.
C15_FlushAtInterval ==
    \A t \in DOMAIN thr :
        thr[t].pcw = "flush" =>
            /\ thr[t].count - thr[t].last_count = FlushEvery
            /\ thr[t].count % FlushEvery = 0

\* C15 as the code has it: a thread flushes each time its count has advanced by
\* more than the interval since its last flush, so the delta it adds to
\* current_sample_count is exactly the interval plus one (10001 in the program)
\* and its flushes come at the multiples of that; each flush is followed by the
\* recomputation of rho.
C15_FlushAtIntervalPlusOne ==
    /\ [](\A t \in DOMAIN thr :
             /\ thr[t].last_count % (FlushEvery + 1) = 0
             /\ thr[t].count - thr[t].last_count <= FlushEvery + 1
             /\ thr[t].pcw = "flush" =>
                   /\ thr[t].count - thr[t].last_count = FlushEvery + 1
                   /\ thr[t].count % (FlushEvery + 1) = 0
             /\ thr[t].pcw \in {"rho", "clamp"} => thr[t].count = thr[t].last_count
             /\ thr[t].pcw \notin {"flush", "loop", "done"} =>
                   thr[t].count - thr[t].last_count <= FlushEvery)
    /\ [][current_sample_count' # current_sample_count =>
             \/ pc = "idle"
             \/ /\ current_sample_count' = current_sample_count + FlushEvery + 1
                /\ \E t \in DOMAIN thr :
                      /\ thr[t].pcw = "flush"
                      /\ thr'[t].pcw = "rho"
                      /\ thr'[t].last_count = thr[t].count]_vars

\* a thread is at its second flush: its count is twice the interval plus one
C15_Witness ==
    \E t \in DOMAIN thr :
        /\ thr[t].pcw = "flush"
        /\ thr[t].last_count = FlushEvery + 1
        /\ thr[t].count = 2 * (FlushEvery + 1)
        /\ current_sample_count = FlushEvery + 1

(***************************************************************************)
(* C17                                                                     *)
(***************************************************************************)
\* the cells of matrix m outside row `row` are the same after the step
OnlyRowWritten(m_before, m_after, row) ==
    /\ DOMAIN m_after = DOMAIN m_before
    /\ \A i \in DOMAIN m_before \ RowCells(row) : m_after[i] = m_before[i]

\* C17: emb_context is all zero after InitVector, until a thread exists; with
\* order 1 no step writes emb_context, which is all zero to the end; with order
\* 2 a step that writes emb_vertex is the addition to row u of a thread's
\* sampled edge and writes no other row, and a step that writes emb_context is
\* a pair of a thread's sampled edge and writes only the row of that pair's
\* target (v, or an entry of neg_table), and never emb_vertex.
C17_MatricesByOrder ==
    /\ []("emb" \in built =>
             /\ thr = Empty => \A i \in DOMAIN emb_context : emb_context[i] = ZeroCell
             /\ order = 1 => \A i \in DOMAIN emb_context : emb_context[i] = ZeroCell)
    /\ [][("emb" \in built /\ order = 1) => emb_context' = emb_context]_vars
    /\ [][("emb" \in built /\ order = 2) =>
             /\ emb_vertex' # emb_vertex =>
                   /\ emb_context' = emb_context
                   /\ \E t \in DOMAIN thr :
                         /\ thr[t].pcw = "apply"
                         /\ thr'[t].count = thr[t].count + 1
                         /\ OnlyRowWritten(emb_vertex, emb_vertex', thr[t].u)
             /\ emb_context' # emb_context =>
                   /\ emb_vertex' = emb_vertex
                   /\ \E t \in DOMAIN thr :
                         /\ thr[t].pcw = "pair"
                         /\ thr'[t].d = thr[t].d + 1
                         /\ \E target \in IF thr[t].d = 0 THEN {thr[t].v}
                                          ELSE {neg_table[k] : k \in DOMAIN neg_table} :
                               OnlyRowWritten(emb_context, emb_context', target)]_vars

\* a run of order 2 on the edges (B, A), (B, C) has trained with negative
\* samples: in emb_vertex only row 0 (B, the source of both edges) was written,
\* in emb_context the row of a target was
C17_Witness ==
    /\ pc = "VectorOutput"
    /\ order = 2
    /\ num_negative = 1
    /\ num_vertices = 3
    /\ \A i \in RowCells(0) : emb_vertex[i].adds > 0
    /\ \A i \in DOMAIN emb_vertex \ RowCells(0) : emb_vertex[i].adds = 0
    /\ \E i \in DOMAIN emb_context : emb_context[i].adds > 0
    /\ \E i \in DOMAIN emb_context : emb_context[i].adds = 0

(***************************************************************************)
(* C18                                                                     *)
(***************************************************************************)
\* C18: after InitAliasTable on n >= 1 positive weights every slot k has
\* prob[k] assigned with 0 <= prob[k] <= 1, every slot whose prob is below 1
\* (the only slots for which a draw r2 < 1 can fall through to alias[k]) has
\* alias[k] assigned with an edge index, and SampleAnEdge returns an index in
\* [0, n) for every pair of draws of the grid; so does every draw made.
C18_SampleInRange ==
    "alias" \in built =>
        /\ \A k \in 0..(num_edges - 1) :
              /\ prob[k] # Uninit
              /\ 0 <= prob[k] /\ prob[k] <= SumW(edge_weight, num_edges)
              /\ prob[k] < SumW(edge_weight, num_edges) =>
                    alias[k] # Uninit /\ alias[k] \in 0..(num_edges - 1)
        /\ \A a \in 0..(Den1 - 1), b \in 0..(Den2 - 1) :
              /\ SampleAnEdge(a, b) \in 0..(num_edges - 1)
              /\ SampleAnEdge(a, b) # (num_edges * a) \div Den1 =>
                    prob[(num_edges * a) \div Den1] < SumW(edge_weight, num_edges)
        /\ sampled # Uninit => sampled \in 0..(num_edges - 1)

\* a table with a slot that has an alias and a slot that has none (prob = 1,
\* alias[k] never written), and a draw was answered by the slot without alias
C18_Witness ==
    /\ "alias" \in built
    /\ \E k \in 0..(num_edges - 1) :
          /\ prob[k] = SumW(edge_weight, num_edges)
          /\ alias[k] = Uninit
          /\ sampled = k
    /\ \E k \in 0..(num_edges - 1) :
          /\ prob[k] < SumW(edge_weight, num_edges)
          /\ alias[k] \in 0..(num_edges - 1)

(***************************************************************************)
(* C19                                                                     *)
(***************************************************************************)
\* C19: when the distinct names have reached the capacity of the hash table,
\* every lookup and insertion still ends (no probe loop runs for ever), and it
\* ends in the report of an error.
C19_FullTableEnds ==
    num_vertices >= hash_table_size =>
        /\ pc # "hung"
        /\ (pc = "ReadRow" /\ rk < num_edges
               /\ SearchHashTable(vertex_hash_table, vertex, input_u[rk]) = Hang) =>
              report # ""

(***************************************************************************)
(* C16                                                                     *)
(***************************************************************************)
\* C16: no two threads are inside a draw on the generator gsl_r at the same
\* time (all threads draw on the one generator of line 58).
C16_DrawsExclusive ==
    \A s, t \in DOMAIN thr :
        (thr[s].pcw = "draw" /\ thr[t].pcw = "draw") => s = t

(***************************************************************************)
(* The process that calls again: up to MaxRuns calls of TrainLINEMain, one  *)
(* thread, any one allocation of a call failing                            *)
(***************************************************************************)
\* the calls of the process that calls again
CallAgain ==
    CallWith({TrainingStream}, {[vertices |-> <<>>, vectors |-> <<>>]}, {1, 2, 3}, {1}, {1},
             {0}, {1}, AllocSites \cup {"none"}, MaxRuns)

RunsNext ==
    \/ CallAgain
    \/ CheckOrder
    \/ InitHashTable
    \/ VectorReadDataBegin
    \/ ReadRow
    \/ InitAliasTable
    \/ InitVector
    \/ InitNegTable
    \/ InitSigmoidTable
    \/ SeedGenerator
    \/ CreateThread
    \/ \E t \in DOMAIN thr : ThreadStep(t)
    \/ JoinThread
    \/ VectorOutput

SpecRuns == Init /\ [][RunsNext]_vars

(***************************************************************************)
(* C11, C12, C20                                                           *)
(***************************************************************************)
\* C11: in a call in which an allocation of the setup fails, no statement
\* writes or reads through the pointer that allocation gave, no thread is
\* created and nothing is appended to the output containers.
C11_FailureAborts ==
    alloc_fail # "none" =>
        /\ pc # "fault"
        /\ thr = Empty
        /\ output_vertices = caller_vertices
        /\ output_vectors = caller_vectors

\* this call was given what the call before it was given
SameCall ==
    /\ prev.made
    /\ prev.u = input_u /\ prev.v = input_v /\ prev.w = input_w
    /\ prev.order = order /\ prev.dim = dim /\ prev.num_negative = num_negative
    /\ prev.total_samples = total_samples /\ prev.num_threads = num_threads

\* C12: when a call with one thread follows, in the same process, a call that
\* was given the same triples and the same configuration, both with every
\* allocation succeeding and with the host generator in the same state at the
\* start (the same draw of unif_rand for the same cell), it appends the same
\* names and the same vectors as the call before.
C12_RunsRepeat ==
    (run >= 2 /\ pc = "returned" /\ SameCall /\ num_threads = 1 /\ order \in {1, 2}
        /\ prev.alloc_fail = "none" /\ alloc_fail = "none") =>
        /\ LastRun.vertices = prev.vertices
        /\ LastRun.vectors = prev.vectors

\* a second call of order 2 has returned after a first with the same arguments;
\* the generator gave both edges in the first call, Rand more than one index
C12_Witness ==
    /\ run = 2
    /\ pc = "returned"
    /\ SameCall
    /\ order = 2
    /\ prev.alloc_fail = "none"
    /\ alloc_fail = "none"
    /\ Len(prev.vertices) = 3
    /\ \E i, j \in 1..Len(gsl_r.known) : gsl_r.known[i] # gsl_r.known[j]
    /\ \E i, j \in 1..Len(rand_seq) : rand_seq[i] # rand_seq[j]
    /\ \E i \in 1..3 : LastRun.vectors[i][1].adds > 1

\* C20: a call with valid order in which every allocation succeeds, made after
\* a call that failed (an allocation failed, or the order was invalid) and
\* returned, loads the graph, trains and appends the pairs of its input.
C20_LaterRunUnaffected ==
    (run >= 2 /\ pc = "returned" /\ prev.made
        /\ (prev.alloc_fail # "none" \/ prev.order \notin {1, 2})
        /\ alloc_fail = "none" /\ order \in {1, 2}) =>
        /\ built = AllBuilt
        /\ thr # Empty
        /\ \A t \in DOMAIN thr : thr[t].pcw = "done"
        /\ output_vertices = caller_vertices \o FirstOccurrences(NameStream(num_edges), <<>>)
        /\ Len(output_vectors) = Len(caller_vectors) + num_vertices

====
